---- MODULE Spec2Model ----
(***************************************************************************)
(* Model of scot/varbase.py: the VARBase object (from_yw, copy, simulate,  *)
(* predict, is_stable) and the module-level whiteness test                 *)
(* (test_whiteness, _calc_q_statistic, _calc_q_h0).                        *)
(*                                                                         *)
(* Numbers are exact rationals <<numerator, denominator>> (denominator     *)
(* positive, lowest terms).  A matrix is a sequence of rows, a trial       *)
(* tensor a sequence (trial) of matrices (channel x sample).  Python's     *)
(* None is the empty sequence.  Sequences are 1-based: Python index i is   *)
(* index i + 1 here.                                                       *)
(***************************************************************************)
EXTENDS Integers, Sequences, FiniteSets, TLC

\* ---------------------------------------------------------------- bounds
MaxOrder == 2
MaxChannels == 2
MaxSamples == 3
MaxTrials == 2
MaxSeed == 1

\* ------------------------------------------------------------ arithmetic
None == <<>>

Abs(x) ==
    IF x < 0 THEN -x ELSE x

RECURSIVE Gcd(_, _)
Gcd(a, b) ==
    IF b = 0 THEN a ELSE Gcd(b, a % b)

Rat(n, d) ==
    LET s == IF d < 0 THEN -1 ELSE 1
        g == Gcd(Abs(n), Abs(d))
    IN  <<(s * n) \div g, (s * d) \div g>>

R(n) ==
    <<n, 1>>

RAdd(a, b) ==
    IF a[2] = 1 /\ b[2] = 1 THEN <<a[1] + b[1], 1>>
    ELSE LET g == Gcd(a[2], b[2])
         IN  Rat(a[1] * (b[2] \div g) + b[1] * (a[2] \div g), (a[2] \div g) * b[2])

RNeg(a) ==
    <<-a[1], a[2]>>

RSub(a, b) ==
    RAdd(a, RNeg(b))

RMul(a, b) ==
    IF a[2] = 1 /\ b[2] = 1 THEN <<a[1] * b[1], 1>>
    ELSE LET g1 == Gcd(Abs(a[1]), b[2])
             g2 == Gcd(Abs(b[1]), a[2])
         IN  Rat((a[1] \div g1) * (b[1] \div g2), (a[2] \div g2) * (b[2] \div g1))

RDiv(a, b) ==
    RMul(a, Rat(b[2], b[1]))

\* n1/d1 < n2/d2 for positive d1, d2, by integer parts and then the
\* reciprocals of the fractional parts, so that no product is formed
RECURSIVE FracLt(_, _, _, _)
FracLt(n1, d1, n2, d2) ==
    LET q1 == n1 \div d1
        q2 == n2 \div d2
        r1 == n1 % d1
        r2 == n2 % d2
    IN  IF q1 # q2 THEN q1 < q2
        ELSE IF r2 = 0 THEN FALSE
        ELSE IF r1 = 0 THEN TRUE
        ELSE FracLt(d2, r2, d1, r1)

RLt(a, b) ==
    FracLt(a[1], a[2], b[1], b[2])

RGe(a, b) ==
    ~RLt(a, b)

RAbs(a) ==
    <<Abs(a[1]), a[2]>>

\* the sum of the numbers of a sequence, from the first on
RECURSIVE Sum(_)
Sum(v) == IF Len(v) = 0 THEN R(0) ELSE RAdd(Sum(SubSeq(v, 1, Len(v) - 1)), v[Len(v)])

\* ---------------------------------------------------------------- arrays
\* an array is held as a value (a tuple of tuples): every constructor below is
\* turned into one by \o <<>>
Rows(a) ==
    Len(a)
Cols(a) ==
    IF Len(a) = 0 THEN 0 ELSE Len(a[1])

Zeros(r, c) ==
    LET e(i, j) == R(0) IN ([ii \in 1..r |-> [jj \in 1..c |-> e(ii, jj)] \o <<>>] \o <<>>)
Eye(n) ==
    LET e(i, j) == IF i = j THEN R(1) ELSE R(0)
    IN  ([ii \in 1..n |-> [jj \in 1..n |-> e(ii, jj)] \o <<>>] \o <<>>)
Transpose(a) ==
    LET e(i, j) == a[j][i]
    IN  ([ii \in 1..Cols(a) |-> [jj \in 1..Rows(a) |-> e(ii, jj)] \o <<>>] \o <<>>)

Dot(a, b) ==
    LET e(i, j) == LET term(k) == IF a[i][k] = R(0) \/ b[k][j] = R(0) THEN R(0)
                                  ELSE RMul(a[i][k], b[k][j])
                   IN  (Sum([kk \in 1..Cols(a) |-> term(kk)] \o <<>>))
    IN  ([ii \in 1..Rows(a) |-> [jj \in 1..Cols(b) |-> e(ii, jj)] \o <<>>] \o <<>>)

MatVec(a, v) ==
    LET e(i) == LET term(k) == IF a[i][k] = R(0) \/ v[k] = R(0) THEN R(0)
                               ELSE RMul(a[i][k], v[k])
                IN  (Sum([kk \in 1..Len(v) |-> term(kk)] \o <<>>))
    IN  ([ii \in 1..Rows(a) |-> e(ii)] \o <<>>)

MatAdd(a, b) ==
    LET e(i, j) == RAdd(a[i][j], b[i][j])
    IN  ([ii \in 1..Rows(a) |-> [jj \in 1..Cols(a) |-> e(ii, jj)] \o <<>>] \o <<>>)
MatSub(a, b) ==
    LET e(i, j) == RSub(a[i][j], b[i][j])
    IN  ([ii \in 1..Rows(a) |-> [jj \in 1..Cols(a) |-> e(ii, jj)] \o <<>>] \o <<>>)
VecAdd(u, v) ==
    LET e(i) == RAdd(u[i], v[i]) IN ([ii \in 1..Len(u) |-> e(ii)] \o <<>>)

Trace(a) ==
    LET d(i) == a[i][i] IN (Sum([kk \in 1..Rows(a) |-> d(kk)] \o <<>>))

\* np.hstack / np.vstack of two 2-D arrays; the caller checks the shapes
HStack(a, b) ==
    LET e(i) == a[i] \o b[i] IN ([ii \in 1..Rows(a) |-> e(ii)] \o <<>>)
VStack(a, b) ==
    a \o b

\* coef[:, (k-1)::p], the m x m coefficient block of lag k
LagBlock(coef, k, p) ==
    LET n == Cols(coef)
        w == IF n < k THEN 0 ELSE ((n - k) \div p) + 1
        e(i, c) == coef[i][k + (c - 1) * p]
    IN  ([ii \in 1..Rows(coef) |-> [jj \in 1..w |-> e(ii, jj)] \o <<>>] \o <<>>)

\* ------------------------------------------------------- linear equations
SwapRows(a, r, s) ==
    LET e(i) == IF i = r THEN a[s] ELSE IF i = s THEN a[r] ELSE a[i]
    IN  ([ii \in 1..Rows(a) |-> e(ii)] \o <<>>)

ScaleRow(row, f) ==
    LET e(j) == IF row[j] = R(0) THEN R(0) ELSE RMul(row[j], f)
    IN  ([ii \in 1..Len(row) |-> e(ii)] \o <<>>)

RowMinus(row, f, piv) ==
    IF f = R(0) THEN row
    ELSE LET e(j) == IF piv[j] = R(0) THEN row[j] ELSE RSub(row[j], RMul(f, piv[j]))
         IN  ([ii \in 1..Len(row) |-> e(ii)] \o <<>>)

\* Gauss-Jordan elimination of the augmented matrix from column c on; None when
\* no pivot is left in a column (the matrix is singular)
\* the rows of sw with the multiple of the pivot row piv (row c, scaled to a
\* leading 1) taken off every other row
Reduce(sw, piv, c) ==
    LET e(i) == IF i = c THEN piv ELSE RowMinus(sw[i], sw[i][c], piv)
    IN  ([ii \in 1..Rows(sw) |-> e(ii)] \o <<>>)

RECURSIVE Eliminate(_, _, _)
Eliminate(aug, c, n) ==
    IF c > n THEN aug
    ELSE LET cand == {r \in c..n : aug[r][c] # R(0)}
         IN  IF cand = {} THEN None
             ELSE LET r == CHOOSE x \in cand : \A y \in cand : x <= y
                  IN  Eliminate(Reduce(SwapRows(aug, r, c),
                                       ScaleRow(aug[r], RDiv(R(1), aug[r][c])), c),
                                c + 1, n)

\* the columns past the n-th of the eliminated matrix; None when there is none
Solution(sol, n) ==
    LET e(i, j) == sol[i][n + j]
    IN  IF sol = None THEN None
        ELSE [ii \in 1..n |-> [jj \in 1..(Cols(sol) - n) |-> e(ii, jj)] \o <<>>] \o <<>>

\* the solution x of a x = b for a square a; None when a is singular
Solve(a, b) ==
    Solution(Eliminate(HStack(a, b), 1, Rows(a)), Rows(a))

\* --------------------------------------------------------------- results
\* a call either returns a value or raises an exception at a source line
Return(v) == [kind |-> "return", val |-> v]
Raise(e, ln) == [kind |-> "raise", exc |-> e, line |-> ln]

\* ------------------------------------------------------- VARBase.from_yw
\* acm = lambda l: acms[l] if l >= 0 else acms[-l].T
YWacm(acms, l) ==
    IF l >= 0 THEN acms[l + 1] ELSE Transpose(acms[1 - l])

\* r = np.concatenate(acms[1:], 0)
YWrhs(acms) ==
    LET m == Rows(acms[1])
        e(i) == acms[((i - 1) \div m) + 2][((i - 1) % m) + 1]
    IN  ([ii \in 1..((Len(acms) - 1) * m) |-> e(ii)] \o <<>>)

\* rr: the block Toeplitz matrix with block (a, b) = acm(a - b)
YWrr(acms, p) ==
    LET m == Rows(acms[1])
        e(i, j) == YWacm(acms, ((i - 1) \div m) - ((j - 1) \div m))[((i - 1) % m) + 1][((j - 1) % m) + 1]
    IN  ([ii \in 1..(p * m) |-> [jj \in 1..(p * m) |-> e(ii, jj)] \o <<>>] \o <<>>)

\* c[bs:bs + n_channels, :] with bs = k * n_channels
YWcblock(c, k, m) ==
    LET e(i) == c[k * m + i] IN ([ii \in 1..m |-> e(ii)] \o <<>>)

\* r = acm(0); for k in range(p): r -= np.dot(c[bs:bs + m, :].T, acm(k + 1))
\* r is acms[0] itself, so the subtraction writes into the caller's array
RECURSIVE YWrescov(_, _, _, _)
YWrescov(acms, c, k, p) ==
    IF k >= p THEN acms
    ELSE LET m == Rows(acms[1])
             r == MatSub(YWacm(acms, 0), Dot(Transpose(YWcblock(c, k, m)), YWacm(acms, k + 1)))
         IN  YWrescov([acms EXCEPT ![1] = r], c, k + 1, p)

\* np.concatenate([c[ch::n_channels, :] for ch in range(n_channels)]).T
YWcoef(c, p, m) ==
    LET e(i) == c[((i - 1) % p) * m + ((i - 1) \div p) + 1]
    IN  Transpose(([ii \in 1..(m * p) |-> e(ii)] \o <<>>))

\* a faulty variant of the guard: only a sequence that is too short is refused
LengthTooShort(acms, order) ==
    Len(acms) < order + 1

\* if len(acms) != self.p + 1
LengthMismatch(acms, order) ==
    Len(acms) # order + 1

\* the effect of from_yw: the result, the model's fields and the caller's array
\* afterwards (on success self.rescov is the array object acms[0]);
\* sp.linalg.solve refuses right-hand sides whose row count is not that of rr
from_yw(self, acms) ==
    IF LengthMismatch(acms, self.p)
    THEN [ret |-> Raise("ValueError", 131), self |-> self, acms |-> acms]
    ELSE IF Rows(YWrhs(acms)) # Rows(YWrr(acms, self.p))
    THEN [ret |-> Raise("ValueError", 145), self |-> self, acms |-> acms]
    ELSE LET m == Rows(acms[1])
             c == Solve(YWrr(acms, self.p), YWrhs(acms))
         IN  IF c = None
             THEN [ret |-> Raise("LinAlgError", 145), self |-> self, acms |-> acms]
             ELSE LET after == YWrescov(acms, c, 0, self.p)
                  IN  [ret |-> Return("self"),
                       self |-> [self EXCEPT !.coef = YWcoef(c, self.p, m), !.rescov = after[1]],
                       acms |-> after]

\* ----------------------------------------------------------- VARBase.copy
copy(self) ==
    IF self.coef = None THEN Raise("AttributeError", 77)
    ELSE IF self.residuals = None THEN Raise("AttributeError", 78)
    ELSE IF self.rescov = None THEN Raise("AttributeError", 79)
    ELSE Return([p |-> self.p, coef |-> self.coef, residuals |-> self.residuals,
                 rescov |-> self.rescov])

\* ------------------------------------------------------ VARBase.is_stable
\* sp.linalg.block_diag(a, b)
BlockDiag(a, b) ==
    LET e(i, j) == IF i <= Rows(a) /\ j <= Cols(a) THEN a[i][j]
                   ELSE IF i > Rows(a) /\ j > Cols(a) THEN b[i - Rows(a)][j - Cols(a)]
                   ELSE R(0)
    IN  ([ii \in 1..(Rows(a) + Rows(b)) |-> [jj \in 1..(Cols(a) + Cols(b)) |-> e(ii, jj)] \o <<>>] \o <<>>)

\* top_block = np.hstack([coef[:, i::p] for i in range(p)])
RECURSIVE TopBlock(_, _, _)
TopBlock(coef, i, p) ==
    IF i = 0 THEN Zeros(Rows(coef), 0)
    ELSE HStack(TopBlock(coef, i - 1, p), LagBlock(coef, i, p))

\* eye_block = im; for i in range(p - 2): eye_block = block_diag(im, eye_block)
RECURSIVE EyeBlock(_, _)
EyeBlock(m, n) ==
    IF n <= 0 THEN Eye(m) ELSE BlockDiag(Eye(m), EyeBlock(m, n - 1))

\* the characteristic polynomial of a, leading coefficient first
\* (Faddeev-LeVerrier): acc holds the coefficients found, mk is M_k
RECURSIVE CharPoly(_, _, _, _)
CharPoly(a, mk, k, acc) ==
    LET n == Rows(a)
    IN  IF k > n THEN acc
        ELSE LET amk == Dot(a, mk)
                 c == RDiv(RNeg(Trace(amk)), R(k))
                 e(i, j) == IF i = j THEN RAdd(amk[i][j], c) ELSE amk[i][j]
                 mk1 == [ii \in 1..n |-> [jj \in 1..n |-> e(ii, jj)] \o <<>>] \o <<>>
             IN  CharPoly(a, mk1, k + 1, Append(acc, c))

\* whether every root of the polynomial (leading coefficient first) has modulus
\* < 1: the Schur-Cohn reduction, each reduced polynomial made monic
RECURSIVE AllRootsInside(_)
AllRootsInside(a) ==
    LET n == Len(a) - 1
    IN  IF n = 0 THEN TRUE
        ELSE /\ RLt(RAbs(a[n + 1]), RAbs(a[1]))
             /\ LET lead == RSub(RMul(a[1], a[1]), RMul(a[n + 1], a[n + 1]))
                    e(i) == RDiv(RSub(RMul(a[1], a[i]), RMul(a[n + 1], a[n - i + 2])), lead)
                IN  AllRootsInside(([ii \in 1..n |-> e(ii)] \o <<>>))

\* np.all(np.abs(np.linalg.eig(tmp)[0]) < 1)
SpectrumInside(tmp) ==
    AllRootsInside(CharPoly(tmp, Eye(Rows(tmp)), 1, <<R(1)>>))

is_stable(self) ==
    IF self.coef = None THEN Raise("AttributeError", 265)
    ELSE LET m == Rows(self.coef)
             mp == Cols(self.coef)
             p == mp \div m
         IN  IF mp # m * p THEN Raise("AssertionError", 267)
             ELSE LET top_block == TopBlock(self.coef, p, p)
                      eye_block == EyeBlock(m, p - 2)
                  IN  IF Rows(eye_block) # m * (p - 1) THEN Raise("ValueError", 278)
                      ELSE LET eye_row == HStack(eye_block, Zeros(m * (p - 1), m))
                           IN  IF Cols(top_block) # Cols(eye_row) THEN Raise("ValueError", 280)
                               ELSE Return(SpectrumInside(VStack(top_block, eye_row)))

\* -------------------------------------------------------- VARBase.predict
\* datatools.atleast_3d: a (channels, samples) array becomes one trial
atleast_3d(x) ==
    IF x.ndim = 2 THEN <<x.a>> ELSE x.a

Trials(d) ==
    Len(d)
Channels(d) ==
    IF Len(d) = 0 THEN 0 ELSE Len(d[1])
Samples(d) ==
    IF Channels(d) = 0 THEN 0 ELSE Len(d[1][1])

\* data[:, :, n], a (trials, channels) array
AtSample(d, n) ==
    LET e(s, c) == d[s][c][n]
    IN  ([ii \in 1..Trials(d) |-> [jj \in 1..Channels(d) |-> e(ii, jj)] \o <<>>] \o <<>>)

\* data[s, :, lo:hi] (Python bounds), a (channels, hi - lo) array
SampleRange(d, s, lo, hi) ==
    LET e(c, j) == d[s][c][lo + j]
    IN  ([ii \in 1..Channels(d) |-> [jj \in 1..(hi - lo) |-> e(ii, jj)] \o <<>>] \o <<>>)

\* a faulty variant of the loop over samples: bp is not transposed
RECURSIVE PredictBySampleNoT(_, _, _, _, _, _)
PredictBySampleNoT(y, data, coef, p, k, n) ==
    IF k > p THEN y
    ELSE IF n >= Samples(data) THEN PredictBySampleNoT(y, data, coef, p, k + 1, p)
    ELSE LET bp == LagBlock(coef, k, p)
             upd == Dot(AtSample(data, n - k + 1), bp)
             e(s, c, j) == IF j = n + 1 THEN RAdd(y[s][c][j], upd[s][c]) ELSE y[s][c][j]
             y1 == [ss \in 1..Trials(data) |->
                       [ii \in 1..Channels(data) |->
                           [jj \in 1..Samples(data) |-> e(ss, ii, jj)] \o <<>>] \o <<>>] \o <<>>
         IN  PredictBySampleNoT(y1,
                                data, coef, p, k, n + 1)

\* for k in range(1, p + 1): for n in range(p, l):
\*     y[:, :, n] += np.dot(data[:, :, n - k], bp.T)
RECURSIVE PredictBySample(_, _, _, _, _, _)
PredictBySample(y, data, coef, p, k, n) ==
    IF k > p THEN y
    ELSE IF n >= Samples(data) THEN PredictBySample(y, data, coef, p, k + 1, p)
    ELSE LET bp == LagBlock(coef, k, p)
             upd == Dot(AtSample(data, n - k + 1), Transpose(bp))
             e(s, c, j) == IF j = n + 1 THEN RAdd(y[s][c][j], upd[s][c]) ELSE y[s][c][j]
             y1 == [ss \in 1..Trials(data) |->
                       [ii \in 1..Channels(data) |->
                           [jj \in 1..Samples(data) |-> e(ss, ii, jj)] \o <<>>] \o <<>>] \o <<>>
         IN  PredictBySample(y1,
                             data, coef, p, k, n + 1)

\* for k in range(1, p + 1): for s in range(t):
\*     y[s, :, p:] += np.dot(bp, data[s, :, (p - k):(l - k)])
RECURSIVE PredictByTrial(_, _, _, _, _, _)
PredictByTrial(y, data, coef, p, k, s) ==
    IF k > p THEN y
    ELSE IF s >= Trials(data) THEN PredictByTrial(y, data, coef, p, k + 1, 0)
    ELSE LET bp == LagBlock(coef, k, p)
             l == Samples(data)
             upd == Dot(bp, SampleRange(data, s + 1, p - k, l - k))
             e(tr, c, j) == IF tr = s + 1 /\ j > p THEN RAdd(y[tr][c][j], upd[c][j - p])
                            ELSE y[tr][c][j]
                 y1 == [ss \in 1..Trials(data) |->
                           [ii \in 1..Channels(data) |->
                               [jj \in 1..l |-> e(ss, ii, jj)] \o <<>>] \o <<>>] \o <<>>
             IN  PredictByTrial(y1, data, coef, p, k, s + 1)

predict(self, x) ==
    LET data == atleast_3d(x)
        t == Trials(data)
        m == Channels(data)
        l == Samples(data)
    IN  IF self.coef = None THEN Raise("IndexError", 234)
        ELSE LET p == Cols(self.coef) \div m
                 zero(s, c, j) == R(0)
                 y == [ss \in 1..t |->
                          [ii \in 1..m |->
                              [jj \in 1..l |-> zero(ss, ii, jj)] \o <<>>] \o <<>>] \o <<>>
             IN  IF t > l - p
                 THEN Return(PredictBySample(y, data, self.coef, p, 1, p))
                 ELSE Return(PredictByTrial(y, data, self.coef, p, 1, 0))

\* ------------------------------------------------------- VARBase.simulate
\* A noise source is a generator; one invocation returns a (1, m) array of draws.
NoiseNext(s) ==
    (5 * s + 3) % 16
NoiseValue(s) ==
    R(((s \div 4) % 4) - 1)

RECURSIVE NoiseDraws(_, _)
NoiseDraws(s, m) ==
    IF m = 0 THEN <<>> ELSE <<NoiseValue(NoiseNext(s))>> \o NoiseDraws(NoiseNext(s), m - 1)

RECURSIVE NoiseSkip(_, _)
NoiseSkip(s, m) ==
    IF m = 0 THEN s ELSE NoiseSkip(NoiseNext(s), m - 1)

\* a source is the pair <<state, invocations so far>>
noisefunc(src, m) ==
    [e |-> NoiseDraws(src[1], m), src |-> <<NoiseSkip(src[1], m), src[2] + 1>>]

\* utils.check_random_state(random_state): the seeded source
check_random_state(seed) ==
    <<seed, 0>>

\* the p lag blocks coef[:, (k - 1)::p], k = 1..p
LagBlocks(coef, p) ==
    LET e(k) == LagBlock(coef, k, p) IN ([ii \in 1..p |-> e(ii)] \o <<>>)

\* a faulty variant of the inner loop: the transposed block is applied
RECURSIVE AddLagsTransposed(_, _, _, _, _)
AddLagsTransposed(yi, y, blocks, i, k) ==
    IF k > Len(blocks) THEN yi
    ELSE AddLagsTransposed(VecAdd(yi, MatVec(Transpose(blocks[k]), y[i - k])), y, blocks, i, k + 1)

\* for k in range(1, p + 1): y[i, :, s] += coef[:, (k - 1)::p].dot(y[i - k, :, s])
RECURSIVE AddLags(_, _, _, _, _)
AddLags(yi, y, blocks, i, k) ==
    IF k > Len(blocks) THEN yi
    ELSE AddLags(VecAdd(yi, MatVec(blocks[k], y[i - k])), y, blocks, i, k + 1)

\* the samples i..n of one trial (i is 1-based): y and res so far, the source
RECURSIVE SimSamples(_, _, _, _, _, _, _)
SimSamples(blocks, m, n, i, y, res, src) ==
    IF i > n THEN [y |-> y, res |-> res, src |-> src]
    ELSE LET d == noisefunc(src, m)
             e == d.e
             yi == IF i <= Len(blocks) THEN e ELSE AddLags(e, y, blocks, i, 1)
         IN  SimSamples(blocks, m, n, i + 1, y \o <<yi>>, res \o <<e>>, d.src)

\* for s in range(t): the trials s..t (1-based), one after the other
RECURSIVE SimTrials(_, _, _, _, _, _, _, _)
SimTrials(blocks, m, n, s, t, ys, ress, src) ==
    IF s > t THEN [y |-> ys, res |-> ress, src |-> src]
    ELSE LET one == SimSamples(blocks, m, n, 1, <<>>, <<>>, src)
         IN  SimTrials(blocks, m, n, s + 1, t, ys \o <<one.y>>, ress \o <<one.res>>, one.src)

\* a faulty variant of the slice: the first l samples are kept
AfterBurnInHead(a, t, m, l, p) ==
    LET e(s, c, j) == a[s][j][c]
    IN  ([ss \in 1..t |-> [ii \in 1..m |-> [jj \in 1..l |-> e(ss, ii, jj)] \o <<>>] \o <<>>] \o <<>>)

\* a[10 * p:, :, :] reordered to (trial, channel, sample); a[s][i] is the
\* channel vector of sample i of trial s
AfterBurnIn(a, t, m, l, p) ==
    LET e(s, c, j) == a[s][10 * p + j][c]
    IN  ([ss \in 1..t |-> [ii \in 1..m |-> [jj \in 1..l |-> e(ss, ii, jj)] \o <<>>] \o <<>>] \o <<>>)

\* datatools.cat_trials: (trials, channels, samples) to (channels, trials * samples)
cat_trials(x) ==
    LET l == Samples(x)
        e(c, k) == x[((k - 1) \div l) + 1][c][((k - 1) % l) + 1]
    IN  ([ii \in 1..Channels(x) |-> [jj \in 1..(Trials(x) * l) |-> e(ii, jj)] \o <<>>] \o <<>>)

NaN == <<0, 0>>

\* np.cov(x.T, rowvar=False) of a (variables, observations) array x: 0/0 with one
\* observation, a 0-d array for one variable
NpCov(x) ==
    LET m == Rows(x)
        n == Cols(x)
        mean(i) == LET v(k) == x[i][k] IN RDiv((Sum([kk \in 1..n |-> v(kk)] \o <<>>)), R(n))
        c(i, j) == IF n = 1 THEN NaN
                   ELSE LET v(k) == RMul(RSub(x[i][k], mean(i)), RSub(x[j][k], mean(j)))
                        IN  RDiv((Sum([kk \in 1..n |-> v(kk)] \o <<>>)), R(n - 1))
    IN  IF m = 1 THEN c(1, 1) ELSE ([ii \in 1..m |-> [jj \in 1..m |-> c(ii, jj)] \o <<>>] \o <<>>)

\* length is a sample count [pair |-> FALSE, l |-> ..] or the pair (l, t);
\* nf is the caller's noise source, None for the default seeded one; src in the
\* result is the source that was drawn from, as the call leaves it
simulate(self, length, nf, random_state) ==
    IF self.coef = None
    THEN [ret |-> Raise("ValueError", 178), self |-> self, src |-> nf]
    ELSE LET m == Rows(self.coef)
             p == Cols(self.coef) \div m
             l == length.l
             t == IF length.pair THEN length.t ELSE 1
             src == IF nf = None THEN check_random_state(random_state) ELSE nf
             n == l + 10 * p
             run == SimTrials(LagBlocks(self.coef, p), m, n, 1, t, <<>>, <<>>, src)
             residuals == AfterBurnIn(run.res, t, m, l, p)
         IN  [ret |-> Return(AfterBurnIn(run.y, t, m, l, p)),
              self |-> [self EXCEPT !.residuals = residuals,
                                    !.rescov = NpCov(cat_trials(residuals))],
              src |-> run.src]

\* ------------------------------------------------------ _calc_q_statistic
\* datatools.acm(x, l): the lag-l autocorrelation matrix, the mean over trials
\* and over the samples k of x[:, :, k + l] x[:, :, k]'
acm(x, l) ==
    LET t == Trials(x)
        n == Samples(x)
        e(i, j) == LET tr(s) == LET v(k) == RMul(x[s][i][k + l], x[s][j][k])
                                IN  RDiv((Sum([kk \in 1..(n - l) |-> v(kk)] \o <<>>)), R(n - l))
                   IN  RDiv((Sum([kk \in 1..t |-> tr(kk)] \o <<>>)), R(t))
    IN  ([ii \in 1..Channels(x) |-> [jj \in 1..Channels(x) |-> e(ii, jj)] \o <<>>] \o <<>>)

\* a = lu_solve(c0f, cl); b = lu_solve(c0f, cl.T); tmp = a.dot(b).trace()
TraceTerm(c0, cl) ==
    Trace(Dot(Solve(c0, cl), Solve(c0, Transpose(cl))))

\* a faulty variant: the per-lag terms are not accumulated
NoCumSum(q) ==
    q

\* q = np.cumsum(q, axis=1)
CumSum(q) ==
    LET e(r, c) == LET v(k) == q[r][k]
                   IN  Sum([kk \in 1..c |-> v(kk)] \o <<>>)
    IN  [ii \in 1..Rows(q) |-> [jj \in 1..Cols(q) |-> e(ii, jj)] \o <<>>] \o <<>>

\* the values of tmp for l = 1..h, c0 being acm(x, 0)
TraceTerms(x, c0, h) ==
    LET t(l) == TraceTerm(c0, acm(x, l)) IN ([ii \in 1..h |-> t(ii)] \o <<>>)

\* q = np.zeros((3, h + 1)) filled by the loop over l: row 1 Box-Pierce,
\* row 2 Ljung-Box, row 3 Li-McLeod; column l + 1 is lag l
PerLag(tmp, h, nt) ==
    LET e(r, c) == IF c = 1 THEN R(0)
                   ELSE IF r = 2 THEN RDiv(tmp[c - 1], R(nt - (c - 1)))
                   ELSE tmp[c - 1]
    IN  ([ii \in 1..3 |-> [jj \in 1..(h + 1) |-> e(ii, jj)] \o <<>>] \o <<>>)

\* q *= nt; q[1, :] *= (nt + 2)
Scaled(q, nt) ==
    LET e(r, c) == IF r = 2 THEN RMul(RMul(q[r][c], R(nt)), R(nt + 2)) ELSE RMul(q[r][c], R(nt))
    IN  ([ii \in 1..Rows(q) |-> [jj \in 1..Cols(q) |-> e(ii, jj)] \o <<>>] \o <<>>)

\* for l in range(1, h + 1): q[2, l] = q[0, l] + m * m * l * (l + 1) / (2 * nt)
LiMcLeod(q, m, nt) ==
    LET e(r, c) == IF r = 3 /\ c > 1 THEN RAdd(q[1][c], Rat(m * m * (c - 1) * c, 2 * nt))
                   ELSE q[r][c]
    IN  ([ii \in 1..Rows(q) |-> [jj \in 1..Cols(q) |-> e(ii, jj)] \o <<>>] \o <<>>)

\* the array q of shape (3, h + 1) returned
calc_q_statistic(x, h, nt) ==
    LiMcLeod(CumSum(Scaled(PerLag(TraceTerms(x, acm(x, 0), h), h, nt), nt)), Channels(x), nt)

\* --------------------------------------------------------- test_whiteness
\* res = data[:, :, p:]
Trim(data, order) ==
    LET e(s, c, j) == data[s][c][order + j]
    IN  [ss \in 1..Trials(data) |->
            [ii \in 1..Channels(data) |->
                [jj \in 1..(Samples(data) - order) |-> e(ss, ii, jj)] \o <<>>] \o <<>>] \o <<>>

\* nt = (n - p) * t with t, m, n = res.shape
NtOf(res, order) ==
    (Samples(res) - order) * Trials(res)

\* the seeded random source of utils.check_random_state: a generator whose
\* permutation shuffles the indices 1..n (Fisher-Yates, from the last down)
RngNext(s) ==
    (13 * s + 7) % 64

\* perm with the entries at i and j exchanged
Swapped(perm, i, j) ==
    LET e(k) == IF k = i THEN perm[j] ELSE IF k = j THEN perm[i] ELSE perm[k]
    IN  ([ii \in 1..Len(perm) |-> e(ii)] \o <<>>)

RECURSIVE Shuffle(_, _, _)
Shuffle(perm, i, s) ==
    IF i < 2 THEN [perm |-> perm, s |-> s]
    ELSE Shuffle(Swapped(perm, i, ((RngNext(s) \div 4) % i) + 1), i - 1, RngNext(s))

\* x with its samples in the order sh.perm, and the source left at sh.s
Permuted(x, sh, calls) ==
    LET e(s, c, j) == x[s][c][sh.perm[j]]
    IN  [x |-> [ss \in 1..Trials(x) |->
                   [ii \in 1..Channels(x) |->
                       [jj \in 1..Samples(x) |-> e(ss, ii, jj)] \o <<>>] \o <<>>] \o <<>>,
         rng |-> <<sh.s, calls + 1>>]

\* rng.permutation(x.T).T: the samples of x reordered, the same way for every
\* channel and trial; the source afterwards
Permutation(src, x) ==
    LET id(k) == k
    IN  Permuted(x, Shuffle(([ii \in 1..Samples(x) |-> id(ii)] \o <<>>), Samples(x), src[1]), src[2])

\* a faulty variant: the worker draws the permutation itself when it runs
TaskDataLate(task, src, x) ==
    Permutation(src, x).x

\* func(rng.permutation(x.T).T, h, nt): the argument a worker computes on is the
\* array drawn when the task was submitted
TaskData(task, src, x) ==
    task.x

\* parallel.parallel_loop: the results in submission order
Gathered(tasks) ==
    LET e(i) == tasks[i].q IN ([ii \in 1..Len(tasks) |-> e(ii)] \o <<>>)

\* [:, 2, -1]: the Li-McLeod statistic at the last lag of every surrogate
LastLiMcLeod(qs) ==
    LET e(i) == qs[i][3][Cols(qs[i])] IN ([ii \in 1..Len(qs) |-> e(ii)] \o <<>>)

\* a faulty variant: the surrogates strictly above the observed value are counted
PValueStrict(q0, q, repeats) ==
    Rat(Cardinality({i \in 1..Len(q0) : RLt(q, q0[i])}), repeats)

\* pr = np.sum(q0 >= q) / repeats
PValue(q0, q, repeats) ==
    Rat(Cardinality({i \in 1..Len(q0) : RGe(q0[i], q)}), repeats)

\* ------------------------------------------------------------ the inputs
\* Autocorrelation sequences of n matrices (lags 0..n-1) for m channels.
AcmKinds == {"unit", "half", "mix", "root", "osc", "zero"}

\* the scalar sequence 2, 1, -1, -2, -1, 1, ... (a_k = a_{k-1} - a_{k-2})
RECURSIVE Osc(_)
Osc(k) ==
    IF k = 0 THEN 2 ELSE IF k = 1 THEN 1 ELSE Osc(k - 1) - Osc(k - 2)

AcmEntry(kind, n, k, i, j) ==
    CASE kind = "zero" -> 0
      [] kind = "osc" -> IF i = j THEN Osc(k) ELSE 0
      [] kind = "unit" -> IF i = j /\ (k = 0 \/ k = n - 1) THEN 1 ELSE 0
      [] kind = "half" -> IF i # j THEN 0 ELSE IF k = 0 THEN 2 ELSE IF k = n - 1 THEN 1 ELSE 0
      [] kind = "mix" -> IF k = 0 THEN (IF i = j THEN 2 ELSE 0)
                         ELSE IF k = n - 1 /\ j >= i THEN 1 ELSE 0
      [] kind = "root" -> IF i # j THEN 0 ELSE IF k = 0 THEN 2
                          ELSE IF k = n - 1 THEN (IF i = 1 THEN 2 ELSE 1) ELSE 0

AcmSeq(kind, m, n) ==
    LET e(k, i, j) == R(AcmEntry(kind, n, k - 1, i, j))
    IN  ([ss \in 1..n |-> [ii \in 1..m |-> [jj \in 1..m |-> e(ss, ii, jj)] \o <<>>] \o <<>>] \o <<>>)

\* a data set of the given shape, its values drawn from a seeded source
DataSet(seed, ndim, t, m, l) ==
    LET v == NoiseDraws(seed, t * m * l)
        e(s, c, j) == v[((s - 1) * m + (c - 1)) * l + j]
        a == ([ss \in 1..t |-> [ii \in 1..m |-> [jj \in 1..l |-> e(ss, ii, jj)] \o <<>>] \o <<>>] \o <<>>)
    IN  [ndim |-> ndim, a |-> IF ndim = 2 THEN a[1] ELSE a]

\* ------------------------------------------------------------- the model
VARIABLES
    p,          \* self.p
    coef,       \* self.coef
    residuals,  \* self.residuals
    rescov,     \* self.rescov
    acms,       \* the caller's array last given to a successful from_yw
    view,       \* whether self.rescov is the array object acms[0]
    call,       \* the last call and its arguments
    ret,        \* what the last call returned or raised
    n_jobs,     \* self.n_jobs
    pc,         \* where the caller is in test_whiteness: idle, h0 or done
    rng,        \* the random source of _calc_q_h0
    tasks,      \* the tasks given to the parallel loop, in submission order
    completed,  \* the tasks in the order they were completed
    locals      \* q0, q and pr of test_whiteness once it has computed them

wvars == <<n_jobs, pc, rng, tasks, completed, locals>>

vars == <<p, coef, residuals, rescov, acms, view, call, ret, wvars>>

\* no whiteness test is running
Idle == pc = "idle" /\ rng = None /\ tasks = <<>> /\ completed = <<>> /\ locals = None

Self == [p |-> p, coef |-> coef, residuals |-> residuals, rescov |-> rescov]

New(order) ==
    [p |-> order, coef |-> None, residuals |-> None, rescov |-> None]

SetSelf(new) ==
    /\ p' = new.p
    /\ coef' = new.coef
    /\ residuals' = new.residuals
    /\ rescov' = new.rescov

\* VARBase.__init__
Init ==
    /\ \E order \in 1..MaxOrder : p = order
    /\ coef = None
    /\ residuals = None
    /\ rescov = None
    /\ acms = None
    /\ view = FALSE
    /\ call = [op |-> "__init__"]
    /\ ret = Return(None)
    /\ n_jobs = 1
    /\ Idle

AcmInputs == {AcmSeq(kind, m, n) : kind \in AcmKinds, m \in 1..MaxChannels, n \in 1..(MaxOrder + 1)}

\* var.from_yw(a); again tells that a is the array object of the call before
FromYWCall(a, again) ==
    LET r == from_yw(Self, a)
    IN  /\ SetSelf(r.self)
        /\ acms' = IF r.ret.kind = "return" THEN r.acms ELSE acms
        /\ view' = IF r.ret.kind = "return" THEN TRUE ELSE view
        /\ call' = [op |-> "from_yw", acms |-> a, again |-> again]
        /\ ret' = r.ret
        /\ UNCHANGED wvars

\* from_yw with a fresh array
FromYW == \E a \in AcmInputs : FromYWCall(a, FALSE)

\* from_yw a second time with the array object the call before was given
FromYWAgain ==
    /\ call.op = "from_yw"
    /\ ret.kind = "return"
    /\ ~call.again
    /\ FromYWCall(acms, TRUE)

Copy ==
    /\ call' = [op |-> "copy"]
    /\ ret' = copy(Self)
    /\ UNCHANGED <<p, coef, residuals, rescov, acms, view, wvars>>

IsStable ==
    /\ call' = [op |-> "is_stable"]
    /\ ret' = is_stable(Self)
    /\ UNCHANGED <<p, coef, residuals, rescov, acms, view, wvars>>

PredictCall(x) ==
    /\ call' = [op |-> "predict", data |-> x]
    /\ ret' = predict(Self, x)
    /\ UNCHANGED <<p, coef, residuals, rescov, acms, view, wvars>>

\* the data sets predict is given, of shape (t, m, l) or (m, l): their channel
\* count is the model's
DataChannels == IF coef = None THEN 1..MaxChannels ELSE {Rows(coef)}

Data3D(seeds, lengths) ==
    {DataSet(seed, 3, t, m, l) : seed \in seeds, t \in 1..MaxTrials, l \in lengths, m \in DataChannels}

Data2D(seeds, lengths) ==
    {DataSet(seed, 2, 1, m, l) : seed \in seeds, l \in lengths, m \in DataChannels}

SimulateCall(length, nf, random_state) ==
    LET r == simulate(Self, length, nf, random_state)
    IN  /\ SetSelf(r.self)
        /\ view' = IF r.ret.kind = "return" THEN FALSE ELSE view
        /\ call' = [op |-> "simulate", length |-> length, noisefunc |-> nf,
                    random_state |-> random_state, src |-> r.src]
        /\ ret' = r.ret
        /\ UNCHANGED <<acms, wvars>>

\* the lengths simulate is given: a sample count, or a pair (samples, trials)
LengthInputs(samples) ==
    {[pair |-> FALSE, l |-> l, t |-> 1] : l \in samples}
    \cup {[pair |-> TRUE, l |-> l, t |-> t] : l \in samples, t \in 1..MaxTrials}

\* the caller's own noise source, as it is before the call
CustomNoise(seed) ==
    <<8 + seed, 0>>

\* the object with its operations in any order
Predict ==
    \/ \E x \in Data3D({0}, {MaxSamples}) : PredictCall(x)
    \/ \E x \in Data2D({0}, {MaxSamples}) : PredictCall(x)

Simulate == SimulateCall([pair |-> FALSE, l |-> 1, t |-> 1], None, 0)

Next == FromYW \/ Copy \/ IsStable \/ Predict \/ Simulate

Spec == Init /\ [][Next]_vars

\* fitting only: from_yw with fresh arrays, and again with the same array
NextYW == FromYW \/ FromYWAgain

SpecYW == Init /\ [][NextYW]_vars

\* a fitted model: a new model after one successful from_yw
InitFitted ==
    \E order \in 1..MaxOrder, a \in AcmInputs :
        LET r == from_yw(New(order), a)
        IN  /\ r.ret.kind = "return"
            /\ p = order
            /\ coef = r.self.coef
            /\ residuals = None
            /\ rescov = r.self.rescov
            /\ acms = r.acms
            /\ view = TRUE
            /\ call = [op |-> "from_yw", acms |-> a, again |-> FALSE]
            /\ ret = r.ret
            /\ n_jobs = 1
            /\ Idle

\* predict on data sets of every shape
PredictAny ==
    \/ \E x \in Data3D(0..MaxSeed, 0..MaxSamples) : PredictCall(x)
    \/ \E x \in Data2D(0..MaxSeed, 0..MaxSamples) : PredictCall(x)

NextPredict == PredictAny

SpecPredict == InitFitted /\ [][NextPredict]_vars

\* data = var.simulate(length, noisefunc); var.predict(data)
SimulateFitted ==
    /\ call.op = "from_yw"
    /\ \E length \in LengthInputs(1..MaxSamples), custom \in BOOLEAN, seed \in 0..MaxSeed :
           SimulateCall(length, IF custom THEN CustomNoise(seed) ELSE None, seed)

PredictSimulated ==
    /\ call.op = "simulate"
    /\ ret.kind = "return"
    /\ PredictCall([ndim |-> 3, a |-> ret.val])

NextSim == SimulateFitted \/ PredictSimulated

SpecSim == InitFitted /\ [][NextSim]_vars

\* ---------------------------------------------------- the whiteness test
MaxLag == 2
MaxRepeats == 3
MaxJobs == 2

\* a model fitted and simulated, so that it has residuals: 2p + MaxLag + 1
\* samples, which leaves nt > MaxLag
InitWhite ==
    \E order \in 1..MaxOrder, m \in 1..MaxChannels, t \in 1..MaxTrials, jobs \in 1..MaxJobs :
        LET f == from_yw(New(order), AcmSeq("half", m, order + 1))
            length == [pair |-> TRUE, l |-> 2 * order + MaxLag + 1, t |-> t]
            r == simulate(f.self, length, None, 0)
        IN  /\ p = order
            /\ coef = r.self.coef
            /\ residuals = r.self.residuals
            /\ rescov = r.self.rescov
            /\ acms = f.acms
            /\ view = FALSE
            /\ call = [op |-> "simulate", length |-> length, noisefunc |-> None,
                       random_state |-> 0, src |-> r.src]
            /\ ret = r.ret
            /\ n_jobs = jobs
            /\ Idle

Res == Trim(residuals, p)
Nt == NtOf(Res, p)

\* var.test_whiteness(h, repeats, get_q, random_state) up to the start of the
\* parallel loop; the covariance of the residuals is taken to be nonsingular
TestWhiteness ==
    /\ pc = "idle"
    /\ residuals # None
    /\ Solve(acm(Res, 0), Eye(Channels(Res))) # None
    /\ \E h \in 1..MaxLag, repeats \in 1..MaxRepeats, get_q \in BOOLEAN, seed \in 0..MaxSeed :
           /\ call' = [op |-> "test_whiteness", h |-> h, repeats |-> repeats,
                       get_q |-> get_q, random_state |-> seed]
           /\ rng' = check_random_state(seed)
    /\ pc' = "h0"
    /\ ret' = Return(None)
    /\ UNCHANGED <<p, coef, residuals, rescov, acms, view, n_jobs, tasks, completed, locals>>

\* the caller takes the next element of the generator: it draws a permutation
\* and hands the task to the loop
Submit ==
    /\ pc = "h0"
    /\ Len(tasks) < call.repeats
    /\ LET d == Permutation(rng, Res)
       IN  /\ tasks' = Append(tasks, [x |-> d.x, st |-> "queued", q |-> None])
           /\ rng' = d.rng
    /\ UNCHANGED <<p, coef, residuals, rescov, acms, view, call, ret, n_jobs, pc, completed, locals>>

Running == {i \in 1..Len(tasks) : tasks[i].st = "running"}
Queued == {i \in 1..Len(tasks) : tasks[i].st = "queued"}

\* a free worker takes the oldest task waiting
Start ==
    /\ pc = "h0"
    /\ Cardinality(Running) < n_jobs
    /\ Queued # {}
    /\ LET i == CHOOSE x \in Queued : \A y \in Queued : x <= y
       IN  tasks' = [tasks EXCEPT ![i].st = "running"]
    /\ UNCHANGED <<p, coef, residuals, rescov, acms, view, call, ret, n_jobs, pc, rng, completed, locals>>

\* a worker completes its task: _calc_q_statistic of the task's array
Finish ==
    /\ pc = "h0"
    /\ \E i \in Running :
           /\ tasks' = [tasks EXCEPT ![i].st = "done",
                                     ![i].q = calc_q_statistic(TaskData(tasks[i], rng, Res), call.h, Nt)]
           /\ completed' = Append(completed, i)
    /\ UNCHANGED <<p, coef, residuals, rescov, acms, view, call, ret, n_jobs, pc, rng, locals>>

\* every task is done: the loop returns, q and pr are computed, the call returns
Finished ==
    /\ pc = "h0"
    /\ Len(tasks) = call.repeats
    /\ \A i \in 1..Len(tasks) : tasks[i].st = "done"
    /\ LET q0 == LastLiMcLeod(Gathered(tasks))
           qs == calc_q_statistic(Res, call.h, Nt)
           q == qs[3][call.h + 1]
           pr == PValue(q0, q, call.repeats)
       IN  /\ locals' = [q0 |-> q0, qs |-> qs, q |-> q, pr |-> pr]
           /\ ret' = Return(IF call.get_q THEN [pr |-> pr, q0 |-> q0, q |-> q] ELSE [pr |-> pr])
    /\ pc' = "done"
    /\ UNCHANGED <<p, coef, residuals, rescov, acms, view, call, n_jobs, rng, tasks, completed>>

NextWhite == TestWhiteness \/ Submit \/ Start \/ Finish \/ Finished

SpecWhite == InitWhite /\ [][NextWhite]_vars

\* ------------------------------------------------------------ properties
Shape(d) ==
    <<Trials(d), Channels(d), Samples(d)>>

\* C1: copy, predict, simulate and is_stable on a model whose coef is unset,
\* and copy on a model whose residuals or rescov is unset, fail with the
\* dedicated UninitializedModelError and return nothing.
C1_UninitializedModelError ==
    (/\ call.op \in {"copy", "predict", "simulate", "is_stable"}
     /\ \/ coef = None
        \/ call.op = "copy" /\ (residuals = None \/ rescov = None))
    => (ret.kind = "raise" /\ ret.exc = "UninitializedModelError")

\* C2: from_yw given a sequence whose length is not p + 1 raises the
\* ValueError of the length check (line 131) and leaves coef, rescov,
\* residuals and the caller's arrays as they were.
C2_LengthMismatchRejected ==
    [][(call'.op = "from_yw" /\ Len(call'.acms) # p + 1)
       => /\ ret' = Raise("ValueError", 131)
          /\ coef' = coef
          /\ rescov' = rescov
          /\ residuals' = residuals
          /\ acms' = acms]_vars

\* a fitted model was given a sequence of the wrong length and refused it
C2_Witness ==
    /\ call.op = "from_yw"
    /\ Len(call.acms) # p + 1
    /\ ret.kind = "raise"
    /\ coef # None

\* C3: is_stable on a model with coef of shape (m, m*p), p >= 1, completes
\* without error and returns a truth value.
C3_IsStableCompletes ==
    (call.op = "is_stable" /\ coef # None) => (ret.kind = "return" /\ ret.val \in BOOLEAN)

\* C4: predict applied to the data simulate returned: data and residuals have
\* the same shape and data - predict(data) = residuals at every sample n >= p.
C4_ResidualsReproduced ==
    (call.op = "predict" /\ ret.kind = "return")
    => LET data == call.data.a
           y == ret.val
       IN  /\ Shape(data) = Shape(residuals)
           /\ \A s \in 1..Trials(data), c \in 1..Channels(data), n \in (p + 1)..Samples(data) :
                  RSub(data[s][c][n], y[s][c][n]) = residuals[s][c][n]

\* two channels, order 2: a sample past the first p with a non-zero prediction
\* and a non-zero residual
C4_Witness ==
    /\ call.op = "predict"
    /\ ret.kind = "return"
    /\ p = 2
    /\ Channels(ret.val) = 2
    /\ \E s \in 1..Trials(ret.val), c \in 1..2, n \in (p + 1)..Samples(ret.val) :
           ret.val[s][c][n] # R(0) /\ residuals[s][c][n] # R(0)

\* the source a simulate call draws from, as it is before the call
SourceBefore == IF call.noisefunc = None THEN check_random_state(call.random_state)
                ELSE call.noisefunc

\* what the k-th invocation on a source returns (the states of a source
\* repeat every 16 draws)
NthDraw(src, k, m) ==
    NoiseDraws(NoiseSkip(src[1], ((k - 1) * m) % 16), m)

PredictedValue(data, order, s, c, n) ==
    LET lag(k) == LET ch(j) == RMul(coef[c][k + (j - 1) * order], data[s][j][n - k])
                  IN  (Sum([kk \in 1..Channels(data) |-> ch(kk)] \o <<>>))
    IN  (Sum([kk \in 1..order |-> lag(kk)] \o <<>>))

C10_InputUnmodified ==
    [][(call'.op = "from_yw" /\ ret'.kind = "return")
       => /\ acms' = call'.acms
          /\ call'.again => (coef' = coef /\ rescov' = rescov)]_vars

\* the Li-McLeod statistic at lag h of the observed residuals
ObservedQ == calc_q_statistic(Res, call.h, Nt)[3][call.h + 1]

\* C6: test_whiteness returns, for every repeats >= 1, the number of surrogate
\* Li-McLeod statistics at lag h that are >= the observed one, divided by
\* repeats: one of 0, 1/repeats, ..., 1; with get_q the null sample returned
\* has repeats elements.
C6_PValueIsCountOverRepeats ==
    pc = "done"
    => LET n == call.repeats
           above == {i \in 1..n : ~RLt(tasks[i].q[3][call.h + 1], ObservedQ)}
       IN  /\ ret.kind = "return"
           /\ Len(tasks) = n
           /\ ret.val.pr = Rat(Cardinality(above), n)
           /\ ret.val.pr \in {Rat(k, n) : k \in 0..n}
           /\ call.get_q => (Len(ret.val.q0) = n /\ ret.val.q = ObservedQ)

\* three surrogates, of which some but not all reach the observed statistic,
\* one of them with equality
C6_Witness ==
    /\ pc = "done"
    /\ call.repeats = MaxRepeats
    /\ call.get_q
    /\ ret.val.pr \notin {R(0), R(1)}
    /\ \E i \in 1..call.repeats : ret.val.q0[i] = ret.val.q

\* the source after k permutations of x have been drawn from it
RECURSIVE SourceAfter(_, _, _)
SourceAfter(src, x, k) ==
    IF k = 0 THEN src ELSE SourceAfter(Permutation(src, x).rng, x, k - 1)

\* the statistics of the first n permutations drawn from the source, one after
\* the other
RECURSIVE SequentialQ0(_, _, _, _, _)
SequentialQ0(src, x, h, nt, n) ==
    IF n = 0 THEN <<>>
    ELSE LET d == Permutation(src, x)
         IN  <<calc_q_statistic(d.x, h, nt)[3][h + 1]>> \o SequentialQ0(d.rng, x, h, nt, n - 1)

\* C7: the random source is advanced by submissions only (after k submissions
\* it is the seeded source after k permutations, whatever the workers have
\* done), and the null sample and p-value returned are those of the
\* permutations taken one after the other from the seeded source, for every
\* n_jobs and every order of completion.
C7_SubmissionOrder ==
    /\ pc # "idle" => rng = SourceAfter(check_random_state(call.random_state), Res, Len(tasks))
    /\ pc = "done"
       => LET q0 == SequentialQ0(check_random_state(call.random_state), Res, call.h, Nt,
                                 call.repeats)
          IN  /\ locals.q0 = q0
              /\ ret.val.pr = Rat(Cardinality({i \in 1..call.repeats : ~RLt(q0[i], ObservedQ)}),
                                  call.repeats)

\* two workers, three tasks completed in another order than submitted, with
\* statistics that are not all the same
C7_Witness ==
    /\ pc = "done"
    /\ n_jobs = 2
    /\ call.repeats = 3
    /\ completed[1] = 2
    /\ \E i, j \in 1..3 : locals.q0[i] # locals.q0[j]

\* tmp_j, the trace term of lag j of the observed residuals
TmpAt(j) ==
    TraceTerm(acm(Res, 0), acm(Res, j))

BoxPierce(l) ==
    LET v(j) == TmpAt(j) IN RMul(R(Nt), (Sum([kk \in 1..l |-> v(kk)] \o <<>>)))

LjungBox(l) ==
    LET v(j) == RDiv(TmpAt(j), R(Nt - j))
    IN  RMul(R(Nt * (Nt + 2)), (Sum([kk \in 1..l |-> v(kk)] \o <<>>)))

\* m^2 * j * (j + 1) / (2 * nt)
BiasTerm(j) ==
    Rat(Channels(Res) * Channels(Res) * j * (j + 1), 2 * Nt)

\* C9 (as the code has it): for every lag l in 0..h, Box-Pierce(l) =
\* nt * sum_{j<=l} tmp_j, Ljung-Box(l) = nt*(nt+2) * sum_{j<=l} tmp_j/(nt-j), and
\* Li-McLeod(l) = Box-Pierce(l) + m^2*l*(l+1)/(2*nt), the bias term of lag l
\* alone; all three are 0 at lag 0.
C9_BiasTermOfLastLag ==
    pc = "done"
    => \A l \in 0..call.h :
           /\ locals.qs[1][l + 1] = BoxPierce(l)
           /\ locals.qs[2][l + 1] = LjungBox(l)
           /\ locals.qs[3][l + 1] = IF l = 0 THEN R(0) ELSE RAdd(BoxPierce(l), BiasTerm(l))

\* C9 (as stated): the same, with the bias terms of the lags 1..l added up in
\* Li-McLeod(l).
C9_BiasTermCumulative ==
    pc = "done"
    => \A l \in 0..call.h :
           /\ locals.qs[1][l + 1] = BoxPierce(l)
           /\ locals.qs[2][l + 1] = LjungBox(l)
           /\ locals.qs[3][l + 1] = LET b(j) == BiasTerm(j)
                                    IN  RAdd(BoxPierce(l), Sum([kk \in 1..l |-> b(kk)] \o <<>>))

\* two lags, with non-zero trace terms at both
C9_Witness ==
    /\ pc = "done"
    /\ call.h = 2
    /\ TmpAt(1) # R(0)
    /\ TmpAt(2) # R(0)

====
